---- MODULE Spec2Model ----
(***************************************************************************)
(* A model of the PDF converter GUI in its three variants:                 *)
(*   "app"      src/src/app.py                    (worker thread)          *)
(*   "docling"  src/src/docling_converter/app.py  (conversion run inline)  *)
(*   "pdf"      src/src/pdf_converter/app.py      (pypdf, run inline)      *)
(* Strings the program computes on (paths, converted text) are sequences   *)
(* of one-character strings; messages it only displays are TLA+ strings.   *)
(***************************************************************************)
EXTENDS Integers, Sequences, FiniteSets, TLC

VARIABLES variant, accurate_mode, ui, dialog, uiCtx, backendCtx, jobs,
          afterQueue, validateCalls, files, probe, proc

vars == <<variant, accurate_mode, ui, dialog, uiCtx, backendCtx, jobs,
          afterQueue, validateCalls, files, probe, proc>>

Variants == {"app", "docling", "pdf"}

(***************************************************************************)
(* Bounds of the model.                                                    *)
(***************************************************************************)
MaxRequests == 2
MaxTextLen == 1
MaxSaveLen == 3
MaxChunk == 2

(***************************************************************************)
(* Strings.                                                                *)
(***************************************************************************)
RECURSIVE Str(_)
Str(s) == IF s = <<>> THEN "" ELSE Head(s) \o Str(Tail(s))

LowerChar(c) ==
    CASE c = "P" -> "p"
      [] c = "D" -> "d"
      [] c = "F" -> "f"
      [] OTHER -> c

Lower(s) == [i \in 1..Len(s) |-> LowerChar(s[i])]

EndsWith(s, suf) ==
    /\ Len(suf) <= Len(s)
    /\ SubSeq(s, Len(s) - Len(suf) + 1, Len(s)) = suf

\* str.rfind(c) as a 1-based index, 0 when c does not occur
RFind(s, c) ==
    LET hits == {i \in 1..Len(s) : s[i] = c}
    IN IF hits = {} THEN 0 ELSE CHOOSE i \in hits : \A k \in hits : k <= i

DotPdf == <<".", "p", "d", "f">>

(***************************************************************************)
(* pathlib.Path: construction collapses repeated separators and drops a    *)
(* trailing one; name is the final component; suffix is the part of the    *)
(* name from its last dot, unless that dot is the first or last character. *)
(***************************************************************************)
RECURSIVE CollapseSlashes(_)
CollapseSlashes(s) ==
    IF Len(s) < 2 THEN s
    ELSE IF s[1] = "/" /\ s[2] = "/" THEN CollapseSlashes(Tail(s))
    ELSE <<s[1]>> \o CollapseSlashes(Tail(s))

PathOf(s) ==
    LET c == CollapseSlashes(s)
    IN IF Len(c) > 1 /\ c[Len(c)] = "/" THEN SubSeq(c, 1, Len(c) - 1) ELSE c

PathName(s) ==
    LET p == PathOf(s)
    IN SubSeq(p, RFind(p, "/") + 1, Len(p))

PathSuffix(s) ==
    LET name == PathName(s)
        i == RFind(name, ".")
    IN IF 1 < i /\ i < Len(name) THEN SubSeq(name, i, Len(name)) ELSE <<>>

(***************************************************************************)
(* The filesystem belongs to the environment: each access sees the file in *)
(* one of these states, whatever an earlier access saw.                    *)
(***************************************************************************)
FileStates == {"missing", "empty", "data"}

\* the paths the file dialog can return
Paths == { <<"/", "d", "/", "a", ".", "p", "d", "f">>,
           <<"/", "d", "/", "a", ".", "t", "x", "t">>,
           <<"/", "d", "/", ".", "p", "d", "f">> }

\* the paths validate_pdf_file is studied on: those, and ones that differ in
\* case, in where the dot is, in repeated separators and in being relative
ValidatePaths ==
    Paths \cup { <<"/", "d", "/", "b", ".", "P", "d", "F">>,
                 <<"/", "d", "/", "a", ".", "p", "d", "f", ".", "t", "x", "t">>,
                 <<"/", "d", "/", "a", "p", "d", "f">>,
                 <<"/", "d", ".", "p", "d", "f", "/", "a">>,
                 <<"/", "d", "/", "/", "a", ".", "p", "d", "f">>,
                 <<"a", ".", "P", "D", "F">> }

Exists(file) == file # "missing"
Size(file) == IF file = "data" THEN 1 ELSE 0

(***************************************************************************)
(* validate_pdf_file: returns [ok |-> TRUE] or the exception it raises.    *)
(***************************************************************************)
Ok == [ok |-> TRUE]
Raise(kind, exc, msg) == [ok |-> FALSE, kind |-> kind, exc |-> exc, msg |-> msg]

ValidateApp(file_path, file) ==
    IF ~Exists(file)
    THEN Raise("NotFound", "FileNotFoundError", "File not found: " \o Str(file_path))
    ELSE IF ~EndsWith(Lower(file_path), DotPdf)
    THEN Raise("WrongType", "ValueError", "Selected file is not a PDF")
    ELSE IF Size(file) = 0
    THEN Raise("Empty", "ValueError", "Selected PDF file is empty")
    ELSE Ok

\* ValidatePath with the size check moved before the extension check
ValidatePathSizeFirst(file_path, file) ==
    LET path == PathOf(file_path)
    IN IF ~Exists(file)
       THEN Raise("NotFound", "FileNotFoundError", "File not found: " \o Str(path))
       ELSE IF Size(file) = 0
       THEN Raise("Empty", "ValueError", "PDF file is empty: " \o Str(path))
       ELSE IF Lower(PathSuffix(path)) # DotPdf
       THEN Raise("WrongType", "ValueError", "File is not a PDF: " \o Str(path))
       ELSE Ok

ValidatePath(file_path, file) ==
    LET path == PathOf(file_path)
    IN IF ~Exists(file)
       THEN Raise("NotFound", "FileNotFoundError", "File not found: " \o Str(path))
       ELSE IF Lower(PathSuffix(path)) # DotPdf
       THEN Raise("WrongType", "ValueError", "File is not a PDF: " \o Str(path))
       ELSE IF Size(file) = 0
       THEN Raise("Empty", "ValueError", "PDF file is empty: " \o Str(path))
       ELSE Ok

\* the validator of each variant, tabulated over the paths of the model
Validators ==
    [v \in Variants |->
       [file_path \in ValidatePaths |->
          [file \in FileStates |->
             IF v = "app" THEN ValidateApp(file_path, file)
             ELSE ValidatePath(file_path, file)]]]

validate_pdf_file(v, file_path, file) == Validators[v][file_path][file]

(***************************************************************************)
(* Converted text, backend outcomes and the other inputs of a job.         *)
(***************************************************************************)
Chars == {"a", " "}
Texts == UNION {[1..n -> Chars] : n \in 0..MaxTextLen}

BackendMsgs == {"bad xref"}
SetupMsgs == {"no model"}
SetupOutcomes == {"ok"} \cup SetupMsgs

\* converter.convert(doc_stream) with export_to_markdown (app, docling):
\* raises, returns None, or yields a text; convert_pdf_to_text (pdf): raises
\* or returns the joined page texts
BackendOutcomes(v) ==
    {[kind |-> "raise", msg |-> m, text |-> <<>>] : m \in BackendMsgs}
    \cup {[kind |-> "text", msg |-> "", text |-> t] : t \in Texts}
    \cup (IF v = "pdf" THEN {} ELSE {[kind |-> "none", msg |-> "", text |-> <<>>]})

\* open(pdf_path, "rb") and f.read(): succeed or raise OSError
ReadOutcomes == {"ok", "missing", "denied"}

(***************************************************************************)
(* Interface state: the widgets of create_ui and the operations the        *)
(* handlers perform on them.                                               *)
(***************************************************************************)
InitUi ==
    [status_var |-> "Select a PDF file to convert",
     select_btn |-> "normal",
     save_btn |-> "disabled",
     output_text |-> <<>>,
     progress_shown |-> FALSE,
     progress_running |-> FALSE]

W(op) == [op |-> op, state |-> "", msg |-> "", text |-> <<>>]
StatusSet(m) == [W("status_set") EXCEPT !.msg = m]
Configure(btn, st) == [W(btn) EXCEPT !.state = st]
OutputInsert(t) == [W("output_insert") EXCEPT !.text = t]

ApplyOp(u, o) ==
    CASE o.op = "status_set" -> [u EXCEPT !.status_var = o.msg]
      [] o.op = "select_btn" -> [u EXCEPT !.select_btn = o.state]
      [] o.op = "save_btn" -> [u EXCEPT !.save_btn = o.state]
      [] o.op = "output_delete" -> [u EXCEPT !.output_text = <<>>]
      [] o.op = "output_insert" -> [u EXCEPT !.output_text = o.text \o @]
      [] o.op = "progress_grid" -> [u EXCEPT !.progress_shown = TRUE]
      [] o.op = "progress_start" -> [u EXCEPT !.progress_running = TRUE]
      [] o.op = "progress_stop" -> [u EXCEPT !.progress_running = FALSE]
      [] o.op = "progress_grid_remove" -> [u EXCEPT !.progress_shown = FALSE]

\* the first n operations of ops applied in order (the n+1st raised, if any)
RECURSIVE ApplyOps(_, _, _)
ApplyOps(u, ops, n) ==
    IF n = 0 \/ ops = <<>> THEN u
    ELSE ApplyOps(ApplyOp(u, Head(ops)), Tail(ops), n - 1)

NoDialog == [kind |-> "none", title |-> "", msg |-> ""]
ShowError(title, msg) == [kind |-> "error", title |-> title, msg |-> msg]

\* handle_exceptions: the wrapped call's exception becomes a message box
handle_exceptions(msg) == ShowError("Error", "An error occurred: " \o msg)

(***************************************************************************)
(* convert_pdf_thread.  A job is one call of it: in "app" it runs on its   *)
(* own thread (ctx "background"), in "docling" and "pdf" select_pdf calls  *)
(* it directly (ctx "interactive").  A step yields the job after the step, *)
(* the callbacks it posted with root.after, the message box it showed and  *)
(* whether it called the backend.  The fields convertCalls, outcome (what   *)
(* the backend did), cause, posted, ran and applied record what happened.  *)
(***************************************************************************)
JobCtx(v) == IF v = "app" THEN "background" ELSE "interactive"

FirstPc(v) == IF v = "pdf" THEN "convert" ELSE "validate"

NewJob(v, file_path, mode) ==
    [path |-> file_path, mode |-> mode, ctx |-> JobCtx(v), pc |-> FirstPc(v),
     converter |-> "unset", pdf_bytes |-> "none", exc |-> "", cause |-> "",
     table_mode |-> "", markdown |-> <<>>, validated |-> 0, setupCalls |-> 0,
     convertCalls |-> 0,
     outcome |-> "", posted |-> 0, ran |-> 0, applied |-> "none"]

Caught(j, cause, msg) == [j EXCEPT !.pc = "except", !.exc = msg, !.cause = cause]

Effect(j) == [job |-> j, posts |-> <<>>, dlg |-> NoDialog, backend |-> FALSE]

Callback(fn, text, msg) == [fn |-> fn, text |-> text, msg |-> msg, req |-> 0]

\* StepValidate whose validator returns False instead of raising: the
\* early return of the worker is taken and nothing is posted
StepValidateReturns(v, j, file) ==
    LET r == validate_pdf_file(v, j.path, file)
        c == [j EXCEPT !.validated = @ + 1]
    IN Effect(IF r.ok THEN [c EXCEPT !.pc = "setup"] ELSE [c EXCEPT !.pc = "done"])

\* StepValidate that reports a message of its own for a rejected file
StepValidateGeneric(v, j, file) ==
    LET r == validate_pdf_file(v, j.path, file)
        c == [j EXCEPT !.validated = @ + 1]
    IN Effect(IF r.ok THEN [c EXCEPT !.pc = "setup"]
              ELSE Caught(c, "validate", "Invalid file"))

\* if not validate_pdf_file(pdf_path): return   (it returns True or raises)
StepValidate(v, j, file) ==
    LET r == validate_pdf_file(v, j.path, file)
        c == [j EXCEPT !.validated = @ + 1]
    IN Effect(IF r.ok THEN [c EXCEPT !.pc = "setup"] ELSE Caught(c, "validate", r.msg))

\* mode = TableFormerMode.ACCURATE if accurate_mode else TableFormerMode.FAST
TableFormerMode(mode) == IF mode THEN "ACCURATE" ELSE "FAST"

\* StepSetup that reads the check box when the converter is built
StepSetupLiveMode(j, setup) ==
    LET c == [j EXCEPT !.pc = "read", !.setupCalls = @ + 1,
                       !.table_mode = TableFormerMode(accurate_mode)]
    IN IF setup = "ok"
       THEN Effect([c EXCEPT !.converter = "ok"])
       ELSE [Effect([c EXCEPT !.converter = "none"])
               EXCEPT !.dlg = handle_exceptions(setup)]

\* converter = setup_converter(accurate_mode): under handle_exceptions a
\* failure shows a message box and the call returns None
StepSetup(j, setup) ==
    LET c == [j EXCEPT !.pc = "read", !.setupCalls = @ + 1,
                       !.table_mode = TableFormerMode(j.mode)]
    IN IF setup = "ok"
       THEN Effect([c EXCEPT !.converter = "ok"])
       ELSE [Effect([c EXCEPT !.converter = "none"])
               EXCEPT !.dlg = handle_exceptions(setup)]

\* with open(pdf_path, "rb") as f: pdf_bytes = BytesIO(f.read())
StepRead(j, read) ==
    IF read = "missing"
    THEN Effect(Caught(j, "read",
            "[Errno 2] No such file or directory: '" \o Str(j.path) \o "'"))
    ELSE IF read = "denied"
    THEN Effect(Caught(j, "read",
            "[Errno 13] Permission denied: '" \o Str(j.path) \o "'"))
    ELSE Effect([j EXCEPT !.pc = "convert", !.pdf_bytes = "open"])

OutcomeOf(b) == IF b.kind = "text" /\ b.text = <<>> THEN "empty" ELSE b.kind

\* StepConvert that calls the backend a second time when the first call raised
StepConvertRetry(j, b) ==
    IF j.converter = "none"
    THEN Effect(Caught(j, "no_converter",
            "'NoneType' object has no attribute 'convert'"))
    ELSE LET c == [j EXCEPT !.convertCalls = @ + 1, !.outcome = OutcomeOf(b)]
             after ==
               CASE b.kind = "raise" ->
                      IF j.convertCalls = 0 THEN c
                      ELSE Caught(c, "backend_raise", b.msg)
                 [] b.kind = "none" ->
                      Caught(c, "no_result", "Conversion failed: No output generated")
                 [] b.kind = "text" ->
                      IF b.text = <<>>
                      THEN Caught(c, "empty_output", "Conversion failed: Empty output")
                      ELSE [c EXCEPT !.pc = "post", !.markdown = b.text]
         IN [Effect(after) EXCEPT !.backend = TRUE]

\* result = converter.convert(doc_stream) and the checks of its result
StepConvert(j, b) ==
    IF j.converter = "none"
    THEN Effect(Caught(j, "no_converter",
            "'NoneType' object has no attribute 'convert'"))
    ELSE LET c == [j EXCEPT !.convertCalls = @ + 1, !.outcome = OutcomeOf(b)]
             after ==
               CASE b.kind = "raise" -> Caught(c, "backend_raise", b.msg)
                 [] b.kind = "none" ->
                      Caught(c, "no_result", "Conversion failed: No output generated")
                 [] b.kind = "text" ->
                      IF b.text = <<>>
                      THEN Caught(c, "empty_output", "Conversion failed: Empty output")
                      ELSE [c EXCEPT !.pc = "post", !.markdown = b.text]
         IN [Effect(after) EXCEPT !.backend = TRUE]

\* pdf: text = convert_pdf_to_text(file_path), posted whatever it is
StepConvertPdf(j, b) ==
    LET c == [j EXCEPT !.convertCalls = @ + 1, !.outcome = OutcomeOf(b)]
        after == IF b.kind = "raise"
                 THEN Caught(c, "backend_raise", b.msg)
                 ELSE [c EXCEPT !.pc = "post", !.markdown = b.text]
    IN [Effect(after) EXCEPT !.backend = TRUE]

\* root.after(0, conversion_complete | conversion_error), then finally:
StepDeliver(j) ==
    LET cb == IF j.pc = "post"
              THEN Callback("conversion_complete", j.markdown, "")
              ELSE Callback("conversion_error", <<>>, j.exc)
    IN [Effect([j EXCEPT !.pc = "done", !.posted = @ + 1,
                         !.pdf_bytes = IF @ = "open" THEN "closed" ELSE @])
          EXCEPT !.posts = <<cb>>]

\* the outcomes of a job's next step, over what the environment may do
StepsOf(v, j) ==
    CASE j.pc = "validate" -> {StepValidate(v, j, file) : file \in FileStates}
      [] j.pc = "setup" -> {StepSetup(j, setup) : setup \in SetupOutcomes}
      [] j.pc = "read" -> {StepRead(j, read) : read \in ReadOutcomes}
      [] j.pc = "convert" ->
           {IF v = "pdf" THEN StepConvertPdf(j, b) ELSE StepConvert(j, b) :
              b \in BackendOutcomes(v)}
      [] j.pc \in {"post", "except"} -> {StepDeliver(j)}

Then(e, s) ==
    [job |-> s.job,
     posts |-> e.posts \o s.posts,
     dlg |-> IF s.dlg = NoDialog THEN e.dlg ELSE s.dlg,
     backend |-> e.backend \/ s.backend]

\* the whole call, as select_pdf of docling and pdf makes it: every way it
\* can run from e to its end
RECURSIVE RunJob(_, _)
RunJob(v, e) ==
    IF e.job.pc = "done" THEN {e}
    ELSE UNION {RunJob(v, Then(e, s)) : s \in StepsOf(v, e.job)}

(***************************************************************************)
(* The handlers of the interactive thread.                                 *)
(***************************************************************************)
NoProbe == [op |-> "none"]

(***************************************************************************)
(* The process: main() builds the window, runs the event loop and ends.    *)
(***************************************************************************)
InMain == [pc |-> "main"]
InMainloop == [pc |-> "mainloop"]

\* the ways the interpreter ends: sys.exit(code), an exception nobody
\* caught (traceback, status 1), main() returned (status 0)
SysExit(code) == [how |-> "SystemExit", code |-> code]
Uncaught == [how |-> "uncaught", code |-> 1]
Returned == [how |-> "return", code |-> 0]

Exited(during, end) ==
    [pc |-> "exited", during |-> during, how |-> end.how, exit_code |-> end.code]

\* root = tk.Tk() and the widgets: built, or a TclError
TkOutcomes == {"ok", "TclError"}

\* messagebox.showerror called when no window could be built: shown, or it
\* raises in its turn
BoxOutcomes == {"shown", "raise"}

\* create_ui: "root" when it returns the window, "exit" when it called
\* sys.exit(1), "raise" when an exception leaves it
create_ui(v, tk, box) ==
    IF tk = "ok" THEN [result |-> "root", dlg |-> NoDialog]
    ELSE IF v = "app" /\ box = "shown"
    THEN [result |-> "exit",
          dlg |-> ShowError("Critical Error", "Failed to create application window")]
    ELSE [result |-> "raise", dlg |-> NoDialog]

\* main whose except branch reports the failure and returns
mainReturns(v, tk, box1, box2) ==
    LET c == create_ui(v, tk, box1)
    IN IF c.result = "root" THEN [running |-> TRUE, dlg |-> c.dlg]
       ELSE [running |-> FALSE, end |-> Returned, dlg |-> c.dlg]

\* main up to the event loop: SystemExit is not an Exception and passes the
\* except branch of app and docling; pdf has no except branch
main(v, tk, box1, box2) ==
    LET c == create_ui(v, tk, box1)
    IN IF c.result = "root" THEN [running |-> TRUE, dlg |-> c.dlg]
       ELSE IF c.result = "exit" THEN [running |-> FALSE, end |-> SysExit(1), dlg |-> c.dlg]
       ELSE IF v = "pdf" \/ box2 = "raise"
       THEN [running |-> FALSE, end |-> Uncaught, dlg |-> c.dlg]
       ELSE [running |-> FALSE, end |-> SysExit(1),
             dlg |-> ShowError("Critical Error", "Application failed to start properly")]

\* the destinations the save dialog can return ("" when cancelled)
Dests == {"/o/x.md", "/o/y.md"}

NoFile == [state |-> "absent", content |-> <<>>]

\* the files save_markdown has written: none before the first save
NoFiles == [d \in Dests |-> NoFile]

Init ==
    /\ variant \in Variants
    /\ accurate_mode = FALSE
    /\ ui = InitUi
    /\ dialog = NoDialog
    /\ uiCtx = {}
    /\ backendCtx = {}
    /\ jobs = <<>>
    /\ afterQueue = <<>>
    /\ validateCalls = <<>>
    /\ files = NoFiles
    /\ probe = NoProbe
    /\ proc = InMainloop

\* what a job's steps did to the shared state
ApplyEffect(i, e, touched) ==
    /\ jobs' = [k \in 1..(IF i > Len(jobs) THEN i ELSE Len(jobs)) |->
                  IF k = i THEN e.job ELSE jobs[k]]
    /\ afterQueue' = afterQueue \o [k \in 1..Len(e.posts) |-> [e.posts[k] EXCEPT !.req = i]]
    /\ dialog' = IF e.dlg = NoDialog THEN dialog ELSE e.dlg
    /\ uiCtx' = uiCtx \cup touched \cup (IF e.dlg = NoDialog THEN {} ELSE {e.job.ctx})
    /\ backendCtx' = IF e.backend THEN backendCtx \cup {e.job.ctx} ELSE backendCtx

\* SelectOps that leaves the Select PDF button enabled
SelectOpsNoDisable(v, file_path) ==
    <<StatusSet("Converting: " \o Str(PathName(file_path))),
      Configure("save_btn", "disabled"),
      W("output_delete"),
      W("progress_grid")>>
    \o (IF v = "app" THEN <<W("progress_start")>> ELSE <<>>)

\* SelectOps that leaves the previous text in the output widget
SelectOpsNoClear(v, file_path) ==
    <<StatusSet("Converting: " \o Str(PathName(file_path))),
      Configure("select_btn", "disabled"),
      Configure("save_btn", "disabled"),
      W("progress_grid")>>
    \o (IF v = "app" THEN <<W("progress_start")>> ELSE <<>>)

\* SelectOps that enables the Select PDF button again before the job runs
SelectOpsReenable(v, file_path) ==
    <<StatusSet("Converting: " \o Str(PathName(file_path))),
      Configure("select_btn", "disabled"),
      Configure("save_btn", "disabled"),
      W("output_delete"),
      W("progress_grid")>>
    \o (IF v = "app" THEN <<W("progress_start")>> ELSE <<>>)
    \o <<Configure("select_btn", "normal")>>

SelectOps(v, file_path) ==
    <<StatusSet("Converting: " \o Str(PathName(file_path))),
      Configure("select_btn", "disabled"),
      Configure("save_btn", "disabled"),
      W("output_delete"),
      W("progress_grid")>>
    \o (IF v = "app" THEN <<W("progress_start")>> ELSE <<>>)

\* RejectOps that leaves the progress bar where it is
RejectOpsKeepsProgress(v, msg) ==
    IF v = "app"
    THEN <<StatusSet("Error processing file: " \o msg)>>
    ELSE <<StatusSet("Error: " \o msg),
           Configure("select_btn", "normal")>>

\* RejectOps that also empties the output widget
RejectOpsClears(v, msg) ==
    IF v = "app"
    THEN <<StatusSet("Error processing file: " \o msg), W("output_delete")>>
    ELSE <<StatusSet("Error: " \o msg),
           Configure("select_btn", "normal"),
           W("progress_grid_remove"),
           W("output_delete")>>

RejectOps(v, msg) ==
    IF v = "app"
    THEN <<StatusSet("Error processing file: " \o msg)>>
    ELSE <<StatusSet("Error: " \o msg),
           Configure("select_btn", "normal"),
           W("progress_grid_remove")>>

\* except branch of select_pdf: validate_pdf_file raised
SelectRejected(file_path, msg) ==
    /\ validateCalls' = <<file_path>>
    /\ ui' = ApplyOps(ui, RejectOps(variant, msg), Len(RejectOps(variant, msg)))
    /\ dialog' = IF variant = "app"
                 THEN ShowError("File Error", "Error processing file: " \o msg)
                 ELSE dialog
    /\ uiCtx' = uiCtx \cup {"interactive"}
    /\ UNCHANGED <<variant, accurate_mode, backendCtx, jobs, afterQueue, files, probe, proc>>

\* app: threading.Thread(target=convert_pdf_thread, ...).start()
\* docling, pdf: convert_pdf_thread(...) called in the handler
SelectAccepted(file_path) ==
    LET j == NewJob(variant, file_path, accurate_mode)
        i == Len(jobs) + 1
    IN /\ Len(jobs) < MaxRequests
       /\ ui' = ApplyOps(ui, SelectOps(variant, file_path),
                         Len(SelectOps(variant, file_path)))
       /\ \E e \in (IF variant = "app" THEN {Effect(j)} ELSE RunJob(variant, Effect(j))) :
            /\ ApplyEffect(i, e, {"interactive"})
            /\ validateCalls' = <<file_path>> \o [k \in 1..e.job.validated |-> e.job.path]
       /\ UNCHANGED <<variant, accurate_mode, files, probe, proc>>

\* file is what validate_pdf_file finds at file_path
select_pdf(file_path, file) ==
    IF file_path = <<>>
    THEN UNCHANGED vars
    ELSE LET r == validate_pdf_file(variant, file_path, file)
         IN IF r.ok THEN SelectAccepted(file_path) ELSE SelectRejected(file_path, r.msg)

\* the Select PDF button invokes its command only while it is enabled; the
\* file dialog returns a path, or "" when cancelled
SelectPdf ==
    /\ proc = InMainloop
    /\ ui.select_btn = "normal"
    /\ \E file_path \in Paths \cup {<<>>}, file \in FileStates :
         select_pdf(file_path, file)

\* a job whose outcome was applied: its thread and the callback's arguments
\* are gone, what is kept is how often and how it was delivered
Ended(j, applied) ==
    [NewJob("", <<>>, FALSE) EXCEPT !.ctx = j.ctx, !.pc = "done",
                                    !.posted = j.posted, !.ran = j.ran + 1,
                                    !.applied = applied]

\* CompleteOps that inserts the result without clearing the widget first
CompleteOpsNoDelete(v, markdown) ==
    <<OutputInsert(markdown),
      StatusSet("Conversion completed!"),
      Configure("select_btn", "normal"),
      Configure("save_btn", "normal")>>
    \o (IF v = "pdf" THEN <<>> ELSE <<W("progress_stop")>>)
    \o <<W("progress_grid_remove")>>

CompleteOps(v, markdown) ==
    <<W("output_delete"),
      OutputInsert(markdown),
      StatusSet("Conversion completed!"),
      Configure("select_btn", "normal"),
      Configure("save_btn", "normal")>>
    \o (IF v = "pdf" THEN <<>> ELSE <<W("progress_stop")>>)
    \o <<W("progress_grid_remove")>>

\* ErrorOps that reports a fixed text instead of the error's message
ErrorOpsGeneric(v, error_msg) ==
    <<StatusSet("Error: conversion failed"),
      Configure("select_btn", "normal")>>
    \o (IF v = "pdf" THEN <<>> ELSE <<W("progress_stop")>>)
    \o <<W("progress_grid_remove")>>

ErrorOps(v, error_msg) ==
    <<StatusSet("Error: " \o error_msg),
      Configure("select_btn", "normal")>>
    \o (IF v = "pdf" THEN <<>> ELSE <<W("progress_stop")>>)
    \o <<W("progress_grid_remove")>>

\* app, docling: conversion_complete wraps its widget operations in
\* try/except; n of them succeed before one raises (all of them: none raises)
RaisePoints(v, ops) == IF v = "pdf" THEN {Len(ops)} ELSE 0..Len(ops)

conversion_complete(cb, n) ==
    LET ops == CompleteOps(variant, cb.text)
    IN /\ ui' = ApplyOps(ui, ops, n)
       /\ dialog' = IF n < Len(ops)
                    THEN ShowError("Error", "Failed to display conversion results")
                    ELSE dialog
       /\ jobs' = [jobs EXCEPT ![cb.req] =
                     Ended(@, IF n < Len(ops) THEN "complete_raised" ELSE "complete")]

conversion_error(cb) ==
    LET ops == ErrorOps(variant, cb.msg)
    IN /\ ui' = ApplyOps(ui, ops, Len(ops))
       /\ dialog' = IF variant = "pdf" THEN dialog
                    ELSE ShowError("Conversion Error", cb.msg)
       /\ jobs' = [jobs EXCEPT ![cb.req] = Ended(@, "error")]

\* the event loop runs the callbacks posted with root.after(0, ...) in order
ConversionComplete ==
    /\ proc = InMainloop
    /\ afterQueue # <<>>
    /\ Head(afterQueue).fn = "conversion_complete"
    /\ \E n \in RaisePoints(variant, CompleteOps(variant, Head(afterQueue).text)) :
         conversion_complete(Head(afterQueue), n)
    /\ afterQueue' = Tail(afterQueue)
    /\ uiCtx' = uiCtx \cup {"interactive"}
    /\ UNCHANGED <<variant, accurate_mode, backendCtx, validateCalls, files, probe, proc>>

ConversionError ==
    /\ proc = InMainloop
    /\ afterQueue # <<>>
    /\ Head(afterQueue).fn = "conversion_error"
    /\ conversion_error(Head(afterQueue))
    /\ afterQueue' = Tail(afterQueue)
    /\ uiCtx' = uiCtx \cup {"interactive"}
    /\ UNCHANGED <<variant, accurate_mode, backendCtx, validateCalls, files, probe, proc>>

(***************************************************************************)
(* The worker thread of "app", one action per step of convert_pdf_thread.  *)
(***************************************************************************)
AtPc(i, pcs) == jobs[i].ctx = "background" /\ jobs[i].pc \in pcs

\* a daemon thread: it runs only as long as the process does
WorkerFrame ==
    /\ proc = InMainloop
    /\ UNCHANGED <<variant, accurate_mode, ui, validateCalls, files, probe, proc>>

WorkerValidate ==
    \E i \in 1..Len(jobs) :
        /\ AtPc(i, {"validate"})
        /\ \E s \in StepsOf(variant, jobs[i]) : ApplyEffect(i, s, {})
        /\ WorkerFrame

WorkerSetup ==
    \E i \in 1..Len(jobs) :
        /\ AtPc(i, {"setup"})
        /\ \E s \in StepsOf(variant, jobs[i]) : ApplyEffect(i, s, {})
        /\ WorkerFrame

WorkerRead ==
    \E i \in 1..Len(jobs) :
        /\ AtPc(i, {"read"})
        /\ \E s \in StepsOf(variant, jobs[i]) : ApplyEffect(i, s, {})
        /\ WorkerFrame

WorkerConvert ==
    \E i \in 1..Len(jobs) :
        /\ AtPc(i, {"convert"})
        /\ \E s \in StepsOf(variant, jobs[i]) : ApplyEffect(i, s, {})
        /\ WorkerFrame

WorkerDeliver ==
    \E i \in 1..Len(jobs) :
        /\ AtPc(i, {"post", "except"})
        /\ \E s \in StepsOf(variant, jobs[i]) : ApplyEffect(i, s, {})
        /\ WorkerFrame

Worker ==
    \/ WorkerValidate
    \/ WorkerSetup
    \/ WorkerRead
    \/ WorkerConvert
    \/ WorkerDeliver

(***************************************************************************)
(* The user and the environment.                                           *)
(***************************************************************************)
\* the Accurate Table Mode check button is never disabled
ToggleAccurate ==
    /\ proc = InMainloop
    /\ accurate_mode' = ~accurate_mode
    /\ UNCHANGED <<variant, ui, dialog, uiCtx, backendCtx, jobs, afterQueue,
                   validateCalls, files, probe, proc>>

\* the output widget is an editable ScrolledText: the user can type in it
UserEdit ==
    /\ proc = InMainloop
    /\ \E t \in Texts :
         /\ t # ui.output_text
         /\ ui' = [ui EXCEPT !.output_text = t]
    /\ UNCHANGED <<variant, accurate_mode, dialog, uiCtx, backendCtx, jobs,
                   afterQueue, validateCalls, files, probe, proc>>

Next ==
    \/ SelectPdf
    \/ ConversionComplete
    \/ ConversionError
    \/ WorkerValidate
    \/ WorkerSetup
    \/ WorkerRead
    \/ WorkerConvert
    \/ WorkerDeliver
    \/ ToggleAccurate
    \/ UserEdit

Spec == Init /\ [][Next]_vars

\* the program with a user who never types into the output widget
NextNoEdit ==
    \/ SelectPdf
    \/ ConversionComplete
    \/ ConversionError
    \/ WorkerValidate
    \/ WorkerSetup
    \/ WorkerRead
    \/ WorkerConvert
    \/ WorkerDeliver
    \/ ToggleAccurate

SpecNoEdit == Init /\ [][NextNoEdit]_vars

(***************************************************************************)
(* The program from the start of the process to its end.                   *)
(***************************************************************************)
InitMain ==
    /\ variant \in Variants
    /\ accurate_mode = FALSE
    /\ ui = InitUi
    /\ dialog = NoDialog
    /\ uiCtx = {}
    /\ backendCtx = {}
    /\ jobs = <<>>
    /\ afterQueue = <<>>
    /\ validateCalls = <<>>
    /\ files = NoFiles
    /\ probe = NoProbe
    /\ proc = InMain

\* main() up to root.mainloop()
Main ==
    /\ proc = InMain
    /\ \E tk \in TkOutcomes, box1 \in BoxOutcomes, box2 \in BoxOutcomes :
         LET m == main(variant, tk, box1, box2)
         IN /\ proc' = IF m.running THEN InMainloop ELSE Exited("create_ui", m.end)
            /\ dialog' = m.dlg
    /\ UNCHANGED <<variant, accurate_mode, ui, uiCtx, backendCtx, jobs, afterQueue,
                   validateCalls, files, probe>>

\* the user closes the window: root.mainloop() returns and main() with it
CloseWindow ==
    /\ proc = InMainloop
    /\ proc' = Exited("mainloop", Returned)
    /\ UNCHANGED <<variant, accurate_mode, ui, dialog, uiCtx, backendCtx, jobs,
                   afterQueue, validateCalls, files, probe>>

NextMain ==
    \/ Main
    \/ CloseWindow
    \/ SelectPdf
    \/ ConversionComplete
    \/ ConversionError
    \/ WorkerValidate
    \/ WorkerSetup
    \/ WorkerRead
    \/ WorkerConvert
    \/ WorkerDeliver
    \/ ToggleAccurate
    \/ UserEdit

SpecMain == InitMain /\ [][NextMain]_vars

\* the thread scheduler runs a started worker to its end and the Tk event
\* loop runs every callback posted with root.after
FairSpec ==
    /\ Spec
    /\ WF_vars(Worker)
    /\ WF_vars(ConversionComplete)
    /\ WF_vars(ConversionError)

(***************************************************************************)
(* validate_pdf_file on its own: a path and the state of the file there    *)
(* are drawn, then the validator of the variant is called on them.         *)
(***************************************************************************)
InitValidate ==
    /\ variant \in Variants
    /\ accurate_mode = FALSE
    /\ ui = InitUi
    /\ dialog = NoDialog
    /\ uiCtx = {}
    /\ backendCtx = {}
    /\ jobs = <<>>
    /\ afterQueue = <<>>
    /\ validateCalls = <<>>
    /\ files = NoFiles
    /\ probe \in {[op |-> "input", path |-> p, file |-> f] :
                    p \in ValidatePaths, f \in FileStates}
    /\ proc = InMainloop

ValidateCall ==
    /\ probe.op = "input"
    /\ probe' = [op |-> "validate_pdf_file", path |-> probe.path, file |-> probe.file,
                 result |-> validate_pdf_file(variant, probe.path, probe.file)]
    /\ UNCHANGED <<variant, accurate_mode, ui, dialog, uiCtx, backendCtx, jobs,
                   afterQueue, validateCalls, files, proc>>

SpecValidate == InitValidate /\ [][ValidateCall]_vars

(***************************************************************************)
(* save_markdown.  The widget's text is read with a newline appended (Tk's *)
(* get("1.0", END)), stripped of white space at both ends, and written to  *)
(* the file the save dialog returns: in chunks of chunk_size characters in *)
(* "app" and "docling", with one write_text in "pdf".                      *)
(***************************************************************************)
Whitespace == {" ", "\n"}

OutputGet(output_text) == output_text \o <<"\n">>

RECURSIVE LStrip(_)
LStrip(s) == IF s # <<>> /\ Head(s) \in Whitespace THEN LStrip(Tail(s)) ELSE s

RECURSIVE RStrip(_)
RStrip(s) ==
    IF s # <<>> /\ s[Len(s)] \in Whitespace
    THEN RStrip(SubSeq(s, 1, Len(s) - 1))
    ELSE s

Strip(s) == RStrip(LStrip(s))

SaveChars == {"a", " "}
SaveTexts == UNION {[1..n -> SaveChars] : n \in 0..MaxSaveLen}

\* Chunks that drops a last chunk shorter than chunk_size
ChunksWholeOnly(content, chunk_size) ==
    [n \in 1..(Len(content) \div chunk_size) |->
       SubSeq(content, (n - 1) * chunk_size + 1, n * chunk_size)]

\* content[i : i + chunk_size] for i in range(0, len(content), chunk_size)
Chunks(content, chunk_size) ==
    LET starts == {i \in 0..(Len(content) - 1) : i % chunk_size = 0}
    IN [n \in 1..Cardinality(starts) |->
          LET i == (n - 1) * chunk_size
              j == IF i + chunk_size < Len(content) THEN i + chunk_size
                   ELSE Len(content)
          IN SubSeq(content, i + 1, j)]

\* what is written, call by call (chunk_size 0: the one write of write_text)
WritesOf(v, content, chunk_size) ==
    IF v = "pdf" THEN <<content>> ELSE Chunks(content, chunk_size)

ChunkSizes(v) == IF v = "pdf" THEN {0} ELSE 1..MaxChunk

\* a file after its first n writes
RECURSIVE Written(_, _)
Written(writes, n) ==
    IF n = 0 THEN <<>> ELSE Written(writes, n - 1) \o writes[n]

\* open() and the writes succeed, open() raises, or the at-th write raises
NoFailure == [fails |-> FALSE, at |-> 0, msg |-> ""]

IoOutcomes(dest, writes) ==
    {NoFailure}
    \cup {[fails |-> TRUE, at |-> 0,
           msg |-> "[Errno 13] Permission denied: '" \o dest \o "'"]}
    \cup {[fails |-> TRUE, at |-> n, msg |-> "[Errno 28] No space left on device"] :
            n \in 1..Len(writes)}

ShowWarning(title, msg) == [kind |-> "warning", title |-> title, msg |-> msg]

\* SavedOps that also empties the output widget
SavedOpsClears == <<StatusSet("File saved successfully!"), W("output_delete")>>

SavedOps == <<StatusSet("File saved successfully!")>>

\* SaveFailedOps that reports a fixed text instead of the error's message
SaveFailedOpsGeneric(msg) == <<StatusSet("Error saving file")>>

SaveFailedOps(msg) == <<StatusSet("Error saving file: " \o msg)>>

SaveLog(content, asked, dest, chunk_size, writes, raised) ==
    [op |-> "save_markdown", content |-> content, asked |-> asked, dest |-> dest,
     chunk_size |-> chunk_size, writes |-> writes, raised |-> raised]

\* if not content: the warning (app, docling) or the status (pdf), and return
SaveNothing(content) ==
    /\ ui' = IF variant = "pdf"
             THEN ApplyOps(ui, <<StatusSet("No content to save")>>, 1)
             ELSE ui
    /\ dialog' = IF variant = "pdf" THEN dialog
                 ELSE ShowWarning("Warning", "No content to save")
    /\ files' = files
    /\ probe' = SaveLog(content, FALSE, "", 0, 0, "")

\* the save dialog was cancelled: if file_path is false, nothing is done
SaveCancelled(content) ==
    /\ probe' = SaveLog(content, TRUE, "", 0, 0, "")
    /\ UNCHANGED <<ui, dialog, files>>

\* with open(file_path, "w") as f: for i in range(...): f.write(...)
SaveWrite(content, dest, chunk_size, io) ==
    LET writes == WritesOf(variant, content, chunk_size)
        done == IF io.fails THEN (IF io.at = 0 THEN 0 ELSE io.at - 1) ELSE Len(writes)
        ops == IF io.fails THEN SaveFailedOps(io.msg) ELSE SavedOps
    IN /\ ui' = ApplyOps(ui, ops, Len(ops))
       /\ dialog' = IF io.fails /\ variant # "pdf"
                    THEN ShowError("Save Error", "Error saving file: " \o io.msg)
                    ELSE dialog
       /\ files' = IF io.fails /\ io.at = 0 THEN files
                   ELSE [files EXCEPT ![dest] =
                           [state |-> IF io.fails THEN "partial" ELSE "written",
                            content |-> Written(writes, done)]]
       /\ probe' = SaveLog(content, TRUE, dest, chunk_size, done, io.msg)

save_markdown(dest, chunk_size) ==
    LET content == Strip(OutputGet(ui.output_text))
    IN IF content = <<>> THEN SaveNothing(content)
       ELSE IF dest = "" THEN SaveCancelled(content)
       ELSE \E io \in IoOutcomes(dest, WritesOf(variant, content, chunk_size)) :
               SaveWrite(content, dest, chunk_size, io)

\* the Save button invokes its command only while it is enabled
SaveMarkdown ==
    /\ proc = InMainloop
    /\ ui.save_btn = "normal"
    /\ \E dest \in Dests \cup {""}, chunk_size \in ChunkSizes(variant) :
         save_markdown(dest, chunk_size)
    /\ UNCHANGED <<variant, accurate_mode, uiCtx, backendCtx, jobs, afterQueue,
                   validateCalls, proc>>

\* the interface after a conversion whose text, or what the user made of it,
\* is output_text
ConvertedUi(output_text) ==
    [InitUi EXCEPT !.status_var = "Conversion completed!", !.save_btn = "normal",
                   !.output_text = output_text]

InitSave ==
    /\ variant \in Variants
    /\ accurate_mode = FALSE
    /\ ui \in {ConvertedUi(t) : t \in SaveTexts}
    /\ dialog = NoDialog
    /\ uiCtx = {}
    /\ backendCtx = {}
    /\ jobs = <<>>
    /\ afterQueue = <<>>
    /\ validateCalls = <<>>
    /\ files = NoFiles
    /\ probe = NoProbe
    /\ proc = InMainloop

SpecSave == InitSave /\ [][SaveMarkdown]_vars

(***************************************************************************)
(* Properties.                                                             *)
(***************************************************************************)
Requests == 1..Len(jobs)

\* a request is in flight from its submission until its outcome callback ran
InFlight(i) == jobs[i].applied = "none"

\* C1: at most one conversion request is in flight at any time, and while
\* one is in flight the Select PDF button is disabled, so that no second
\* submission can start before the outcome callback has run.
C1_AtMostOneInFlight ==
    /\ Cardinality({i \in Requests : InFlight(i)}) <= 1
    /\ \A i \in Requests : InFlight(i) => ui.select_btn = "disabled"

\* a second request is running on the worker thread after the first one's
\* outcome was applied
C1_Witness ==
    /\ variant = "app"
    /\ Len(jobs) = 2
    /\ ~InFlight(1)
    /\ InFlight(2)
    /\ jobs[2].pc = "convert"

\* the callbacks of request i waiting in the event loop
Queued(i) == {k \in 1..Len(afterQueue) : afterQueue[k].req = i}

C2_AtMostOnce ==
    \A i \in Requests :
        /\ jobs[i].posted <= 1
        /\ jobs[i].ran <= jobs[i].posted
        /\ Cardinality(Queued(i)) = jobs[i].posted - jobs[i].ran
        /\ jobs[i].ran = 1 <=> jobs[i].applied # "none"

\* request i still gets its callback: its worker has a step to take, or its
\* callback waits in the event loop, which can run the callback at its head
StillDelivered(i) ==
    \/ jobs[i].pc # "done" /\ ENABLED Worker
    \/ /\ jobs[i].pc = "done"
       /\ Queued(i) # {}
       /\ ENABLED (ConversionComplete \/ ConversionError)

\* C2: for every submitted request exactly one of conversion_complete and
\* conversion_error is scheduled and run, exactly once: never a second
\* callback, never both, and on every path through convert_pdf_thread the
\* request either has had its callback run or is still on its way to it
\* (each job takes finitely many steps, so it ends with the callback run).
C2_ExactlyOneOutcome ==
    /\ C2_AtMostOnce
    /\ \A i \in Requests : jobs[i].ran = 1 \/ StillDelivered(i)

\* the same as a liveness property, for FairSpec: every submitted request
\* eventually has its one callback run
C2_EventuallyDelivered ==
    \A i \in 1..MaxRequests :
        (Len(jobs) >= i) ~> (Len(jobs) >= i /\ jobs[i].ran = 1)

\* both requests had their one callback run, one of each kind
C2_Witness ==
    /\ variant = "app"
    /\ Len(jobs) = 2
    /\ jobs[1].posted = 1 /\ jobs[1].ran = 1 /\ jobs[1].applied = "error"
    /\ jobs[2].posted = 1 /\ jobs[2].ran = 1 /\ jobs[2].applied = "complete"
    /\ afterQueue = <<>>

\* C3: no step run in the background worker context touches the interface
\* or shows a dialog; every interface effect of a job happens in a callback
\* run on the interactive thread.
C3_NoInterfaceEffectInBackground == "background" \notin uiCtx

\* C4: the blocking backend call is made in a background context only, never
\* in the interactive context, in every variant of select_pdf.
C4_BackendOnlyInBackground == backendCtx \subseteq {"background"}

\* C5: whenever the backend raised, returned no result or returned empty
\* text, the callback scheduled for the request is conversion_error, and
\* conversion_complete is only ever scheduled with non-empty text, in every
\* variant.
C5_BackendFailureIsFailure ==
    \A k \in 1..Len(afterQueue) :
        LET cb == afterQueue[k]
        IN /\ jobs[cb.req].outcome \in {"raise", "none", "empty"}
                => cb.fn = "conversion_error"
           /\ cb.fn = "conversion_complete" => cb.text # <<>>

\* the outcome of request i is applied in this step
Applies(i, how) == jobs[i].applied = "none" /\ jobs'[i].applied = how

Idle(u) == u.select_btn = "normal" /\ ~u.progress_shown /\ ~u.progress_running

\* C6: when the success outcome of a request whose backend returned the
\* non-empty text T is applied, the output widget holds exactly T, the status
\* is "Conversion completed!", the Select and Save buttons are enabled and
\* the progress bar is hidden.
C6_SuccessApplied ==
    [][\A i \in Requests :
         (Applies(i, "complete") /\ jobs[i].markdown # <<>>) =>
            /\ ui'.output_text = jobs[i].markdown
            /\ ui'.status_var = "Conversion completed!"
            /\ ui'.save_btn = "normal"
            /\ Idle(ui')]_vars

\* the second conversion's text is shown, after the first one's
C6_Witness ==
    /\ Len(jobs) = 2
    /\ jobs[1].applied = "complete"
    /\ jobs[2].applied = "complete"
    /\ ui.output_text = <<"a">>
    /\ ui.status_var = "Conversion completed!"
    /\ ui.save_btn = "normal"
    /\ Idle(ui)

BackendRaised(i) == jobs[i].cause = "backend_raise"

\* C7 as claimed: when the failure outcome of a request whose backend raised
\* M is applied, the status is "Error: " followed by M, the Select button is
\* enabled, the progress bar hidden, the output widget still empty and the
\* Save button still disabled.
C7_FailureAppliedOutputEmpty ==
    [][\A i \in Requests :
         (Applies(i, "error") /\ BackendRaised(i)) =>
            /\ ui'.status_var = "Error: " \o jobs[i].exc
            /\ Idle(ui')
            /\ ui'.output_text = <<>>
            /\ ui'.save_btn = "disabled"]_vars

\* C7, amended: when the failure outcome of a request whose backend raised M
\* is applied, the status is "Error: " followed by M, the Select button is
\* enabled, the progress bar hidden and the Save button still disabled; the
\* callback leaves the output widget as it finds it, and between submission
\* and outcome only the user's typing puts text into the widget.
C7_FailureApplied ==
    /\ [][\A i \in Requests :
            (Applies(i, "error") /\ BackendRaised(i)) =>
               /\ jobs[i].exc \in BackendMsgs
               /\ ui'.status_var = "Error: " \o jobs[i].exc
               /\ Idle(ui')
               /\ ui'.output_text = ui.output_text
               /\ ui'.save_btn = "disabled"]_vars
    /\ [][\A i \in Requests :
            (InFlight(i) /\ jobs'[i].applied = "none"
               /\ ui'.output_text # ui.output_text) => UserEdit]_vars

\* a backend error was reported after the user had typed into the widget
C7_Witness ==
    /\ Len(jobs) >= 1
    /\ jobs[1].applied = "error"
    /\ ui.status_var = "Error: bad xref"
    /\ ui.output_text = <<"a">>
    /\ ui.save_btn = "disabled"
    /\ Idle(ui)

\* nothing is pending: every worker has ended and every callback has run
Quiescent == afterQueue = <<>> /\ \A i \in Requests : jobs[i].pc = "done"

\* C8: no failure leaves the Select button disabled or the progress bar
\* shown for good: once the worker has ended and the event loop has run the
\* callbacks, the button is enabled and the bar hidden.
C8_RestoredAfterFailure ==
    Quiescent => (ui.select_btn = "normal" /\ ~ui.progress_shown)

\* the extension of a path: its final component from the last dot on, a
\* leading dot of the component not counting (a dot file has none)
ExtensionOf(p) ==
    LET k == RFind(p, "/")
        name == SubSeq(p, k + 1, Len(p))
        dots == {i \in 2..Len(name) : name[i] = "."}
    IN IF dots = {} THEN <<>>
       ELSE LET d == CHOOSE i \in dots : \A m \in dots : m <= i
            IN SubSeq(name, d, Len(name))

IsPdfNamed(p) == Lower(ExtensionOf(p)) = DotPdf

Validated == probe.op = "validate_pdf_file"

\* C9: for every path P, validate_pdf_file(P) returns True if and only if P
\* exists, P's extension is .pdf (case-insensitively) and P is not empty;
\* otherwise it raises; and it changes nothing but its result.
C9_ValidateIff ==
    Validated =>
        /\ probe.result.ok <=>
              (Exists(probe.file) /\ IsPdfNamed(probe.path) /\ Size(probe.file) > 0)
        /\ ui = InitUi /\ dialog = NoDialog /\ jobs = <<>> /\ afterQueue = <<>>

\* C10: validate_pdf_file of docling_converter and pdf_converter checks
\* existence, then extension, then size, and reports the first failure: a
\* missing path raises FileNotFoundError (NotFound) whatever its extension, an
\* existing file without the .pdf extension raises WrongType whatever its
\* size, and Empty is raised only for an existing .pdf file of size 0.
C10_ValidateOrder ==
    (Validated /\ variant # "app") =>
        /\ ~Exists(probe.file) =>
              /\ ~probe.result.ok
              /\ probe.result.kind = "NotFound"
              /\ probe.result.exc = "FileNotFoundError"
        /\ (Exists(probe.file) /\ ~IsPdfNamed(probe.path)) =>
              /\ ~probe.result.ok
              /\ probe.result.kind = "WrongType"
        /\ (~probe.result.ok /\ probe.result.kind = "Empty") =>
              /\ Exists(probe.file)
              /\ IsPdfNamed(probe.path)
              /\ Size(probe.file) = 0

\* an empty file without the .pdf extension (two checks fail) was rejected
\* as WrongType by the docling validator
C10_Witness ==
    /\ Validated
    /\ variant = "docling"
    /\ probe.file = "empty"
    /\ ~IsPdfNamed(probe.path)
    /\ ~probe.result.ok
    /\ probe.result.kind = "WrongType"

\* the user picks path p, at which validate_pdf_file finds file f, and
\* select_pdf runs
Selects(p, f) == ui.select_btn = "normal" /\ select_pdf(p, f)

SelectFails(p, f) == ~validate_pdf_file(variant, p, f).ok /\ Selects(p, f)

\* a rejected selection is a step of the enabled button that leaves the
\* output widget and the mode alone; only such steps need a closer look
MaySelectFail ==
    /\ ui.select_btn = "normal"
    /\ ui'.output_text = ui.output_text
    /\ accurate_mode' = accurate_mode

SelectStarts(p, f) == validate_pdf_file(variant, p, f).ok /\ Selects(p, f)

\* an accepted selection adds a job; only such steps need a closer look
MaySelectStart == Len(jobs') = Len(jobs) + 1

NothingSubmitted ==
    jobs' = jobs /\ afterQueue' = afterQueue /\ backendCtx' = backendCtx

\* C11 as claimed: when validate_pdf_file raises M for the selected path, no
\* job is submitted and the backend is not called, the status is "Error: "
\* followed by M, the Select button is enabled, the progress bar is hidden
\* and the validator was called exactly once, with the selected path.
C11_ValidationFailureStatus ==
    [][MaySelectFail => \A p \in Paths, f \in FileStates :
         SelectFails(p, f) =>
            /\ NothingSubmitted
            /\ ui'.status_var = "Error: " \o validate_pdf_file(variant, p, f).msg
            /\ ui'.select_btn = "normal"
            /\ ~ui'.progress_shown
            /\ validateCalls' = <<p>>]_vars

\* C11, amended: when validate_pdf_file raises M for the selected path, no
\* job is submitted, the backend is not called, the Select button is enabled
\* and the validator was called exactly once, with the selected path; in
\* docling_converter and pdf_converter the status is "Error: " followed by M
\* and the progress bar is hidden, in src/app.py the status is "Error
\* processing file: " followed by M and nothing else of the interface changes.
C11_ValidationFailure ==
    [][MaySelectFail => \A p \in Paths, f \in FileStates :
         SelectFails(p, f) =>
            LET M == validate_pdf_file(variant, p, f).msg
            IN /\ NothingSubmitted
               /\ ui'.select_btn = "normal"
               /\ validateCalls' = <<p>>
               /\ variant # "app" =>
                     /\ ui'.status_var = "Error: " \o M
                     /\ ~ui'.progress_shown
               /\ variant = "app" =>
                     ui' = [ui EXCEPT !.status_var = "Error processing file: " \o M]]_vars

\* after a finished conversion the docling variant rejected a text file
C11_Witness ==
    /\ variant = "docling"
    /\ Len(jobs) = 1
    /\ jobs[1].applied # "none"
    /\ validateCalls = << <<"/", "d", "/", "a", ".", "t", "x", "t">> >>
    /\ ui.status_var = "Error: File is not a PDF: /d/a.txt"
    /\ ui.select_btn = "normal"
    /\ ~ui.progress_shown

\* C12: when the selected path passes validation, select_pdf puts the
\* interface into its running state and starts the conversion exactly once:
\* the status is "Converting: " followed by the file name, the Select and Save
\* buttons are disabled, the output widget is cleared, the progress bar is
\* shown, and exactly one job for that path exists, its outcome not yet
\* applied (in src/app.py: its thread has not yet taken a step).
C12_RunningOnAccept ==
    [][MaySelectStart => \A p \in Paths, f \in FileStates :
         SelectStarts(p, f) =>
            LET i == Len(jobs) + 1
            IN /\ ui'.status_var = "Converting: " \o Str(PathName(p))
               /\ ui'.select_btn = "disabled"
               /\ ui'.save_btn = "disabled"
               /\ ui'.output_text = <<>>
               /\ ui'.progress_shown
               /\ Len(jobs') = i
               /\ \A k \in Requests : jobs'[k] = jobs[k]
               /\ jobs'[i].applied = "none"
               /\ jobs'[i].ran = 0
               /\ variant = "app" => jobs'[i] = NewJob(variant, p, accurate_mode)
               /\ variant # "app" =>
                     /\ jobs'[i].path = p
                     /\ jobs'[i].pc = "done"
                     /\ jobs'[i].posted = 1]_vars

\* the worker thread of a.pdf was started over text the user had typed
C12_Witness ==
    /\ variant = "app"
    /\ Len(jobs) = 2
    /\ jobs[2] = NewJob("app", <<"/", "d", "/", "a", ".", "p", "d", "f">>, TRUE)
    /\ ui.status_var = "Converting: a.pdf"
    /\ ui.select_btn = "disabled"
    /\ ui.save_btn = "disabled"
    /\ ui.output_text = <<>>
    /\ ui.progress_shown
    /\ ui.progress_running

\* C13: for every request the outcome callback is applied while the Select
\* button is (still) disabled for it, the button goes from disabled to enabled
\* only in the step that applies an outcome, and in no state is the button
\* enabled while a request's outcome is pending.
C13_EnabledOnlyByOutcome ==
    /\ [](\A i \in Requests : InFlight(i) => ui.select_btn = "disabled")
    /\ [][afterQueue' # afterQueue =>
            \A i \in Requests :
               (InFlight(i) /\ jobs'[i].applied # "none") =>
                  /\ ui.select_btn = "disabled"
                  /\ jobs[i].posted = 1
                  /\ (ConversionComplete \/ ConversionError)]_vars
    /\ [][\A i \in Requests :
            (InFlight(i) /\ jobs'[i].applied # "none") => afterQueue' # afterQueue]_vars
    /\ [][(ui.select_btn = "disabled" /\ ui'.select_btn = "normal") =>
            \E i \in Requests : InFlight(i) /\ jobs'[i].applied # "none"]_vars

\* the inline conversion of docling failed and its callback gave the Select
\* button back
C13_Witness ==
    /\ variant = "docling"
    /\ Len(jobs) = 1
    /\ jobs[1].applied = "error"
    /\ afterQueue = <<>>
    /\ ui.select_btn = "normal"
    /\ validateCalls = << <<"/", "d", "/", "a", ".", "p", "d", "f">>,
                          <<"/", "d", "/", "a", ".", "p", "d", "f">> >>

\* the buffered text with the white space at its two ends removed
Trimmed(t) ==
    LET solid == {i \in 1..Len(t) : t[i] \notin Whitespace}
    IN IF solid = {} THEN <<>>
       ELSE SubSeq(t, CHOOSE i \in solid : \A k \in solid : i <= k,
                      CHOOSE i \in solid : \A k \in solid : k <= i)

Saved == probe.op = "save_markdown"

\* C14: when the output widget holds nothing but white space, save_markdown
\* writes no file, does not open the save dialog and sets the status to "No
\* content to save", in every variant.
C14_NoOpSave ==
    (Saved /\ Trimmed(ui.output_text) = <<>>) =>
        /\ files = NoFiles
        /\ probe.writes = 0
        /\ ~probe.asked
        /\ ui.status_var = "No content to save"

\* the number of writes range(0, n, k) leads to
WritesNeeded(n, k) == (n + k - 1) \div k

\* C15: for every text C in the output widget that is not all white space
\* and every chunk size k >= 1, a save whose writes all succeed leaves a file
\* whose content is exactly C with the white space at its ends removed, as
\* the single write of pdf_converter does, written in ceil(len/k) chunks, and
\* the status is "File saved successfully!".
C15_ChunkedWriteExact ==
    (Saved /\ probe.dest # "" /\ probe.raised = "") =>
        /\ Trimmed(ui.output_text) # <<>>
        /\ files[probe.dest] =
              [state |-> "written", content |-> Trimmed(ui.output_text)]
        /\ ui.status_var = "File saved successfully!"
        /\ probe.writes = IF variant = "pdf" THEN 1
                          ELSE WritesNeeded(Len(Trimmed(ui.output_text)),
                                            probe.chunk_size)

\* "a a" was written to x.md in two chunks, "a " and "a"
C15_Witness ==
    /\ Saved
    /\ variant = "docling"
    /\ ui.output_text = <<"a", " ", "a">>
    /\ probe.dest = "/o/x.md"
    /\ probe.chunk_size = 2
    /\ probe.writes = 2
    /\ probe.raised = ""
    /\ files["/o/x.md"] = [state |-> "written", content |-> <<"a", " ", "a">>]

\* C16: save_markdown changes neither the output widget nor the buttons, and
\* every file a save has written holds the widget's text with the white space
\* at its ends removed: the same text saved to two destinations gives two
\* files of identical content.
C16_SaveLeavesBuffer ==
    /\ [][/\ ui'.output_text = ui.output_text
          /\ ui'.select_btn = ui.select_btn
          /\ ui'.save_btn = ui.save_btn]_vars
    /\ [](\A d \in Dests :
            files[d].state = "written" => files[d].content = Trimmed(ui.output_text))
    /\ [](\A d, e \in Dests :
            (files[d].state = "written" /\ files[e].state = "written") =>
               files[d].content = files[e].content)

\* " aa" was saved to x.md and then to y.md
C16_Witness ==
    /\ Saved
    /\ ui.output_text = <<" ", "a", "a">>
    /\ ui.save_btn = "normal"
    /\ probe.dest = "/o/y.md"
    /\ files["/o/x.md"] = [state |-> "written", content |-> <<"a", "a">>]
    /\ files["/o/y.md"] = [state |-> "written", content |-> <<"a", "a">>]

Applied(i) == jobs'[i].applied # "none" /\ jobs[i].applied = "none"

\* C17: every rejected selection and every failed conversion shows, besides
\* the status, a message box that carries the error's message, in every
\* variant.
C17_FailureShowsDialog ==
    /\ [][MaySelectFail => \A p \in Paths, f \in FileStates :
            SelectFails(p, f) =>
               /\ dialog'.kind = "error"
               /\ dialog'.msg \in
                     {validate_pdf_file(variant, p, f).msg,
                      "Error processing file: " \o validate_pdf_file(variant, p, f).msg}]_vars
    /\ [][\A i \in Requests :
            Applies(i, "error") =>
               /\ dialog'.kind = "error"
               /\ dialog'.msg = jobs[i].exc]_vars

SaveFailed == Saved /\ probe.raised # ""

SaveSucceeds == SaveMarkdown /\ probe'.dest # "" /\ probe'.raised = ""

\* C18: when a save's open or write raises an error of message M, the status
\* is "Error saving file: " followed by M, nothing else of the interface has
\* changed (the widget's text, the buttons and the progress bar are as the
\* conversion left them), the handler has returned, and a save that succeeds
\* is possible next.
C18_SaveFailureReported ==
    SaveFailed =>
        /\ probe.raised \in {io.msg : io \in IoOutcomes(probe.dest, <<probe.content>>)}
        /\ ui = [ConvertedUi(ui.output_text) EXCEPT
                   !.status_var = "Error saving file: " \o probe.raised]
        /\ ENABLED SaveSucceeds

\* the write to x.md failed half way, then the same text was saved to y.md
C18_Witness ==
    /\ Saved
    /\ files["/o/x.md"].state = "partial"
    /\ probe.dest = "/o/y.md"
    /\ probe.raised = ""
    /\ files["/o/y.md"].state = "written"
    /\ ui.status_var = "File saved successfully!"

\* C19: the BytesIO buffer of a job is closed when convert_pdf_thread has
\* ended, whichever way it ended, and it is only ever touched in the
\* background context, never by the interactive thread.
C19_BufferClosedAndPrivate ==
    \A i \in Requests :
        /\ jobs[i].pc = "done" => jobs[i].pdf_bytes # "open"
        /\ jobs[i].pdf_bytes # "none" => jobs[i].ctx = "background"

\* validation, setup and the read of the file succeeded for this job
ReachedConvert(j) ==
    IF variant = "pdf" THEN j.pc # "convert"
    ELSE j.pc \in {"post", "except", "done"} /\ j.converter = "ok" /\ j.pdf_bytes # "none"

\* C20: a submitted request is consumed once: for one submission
\* setup_converter is called at most once (once when the job's validation
\* passed), the backend's convert is called at most once, exactly once when
\* validation, setup and the read succeeded and not at all otherwise, and at
\* most one outcome is posted: a failed conversion is not tried again.
C20_ConsumedOnce ==
    \A i \in Requests :
        /\ jobs[i].setupCalls <= 1
        /\ jobs[i].convertCalls <= 1
        /\ jobs[i].posted <= 1
        /\ InFlight(i) =>
              /\ jobs[i].convertCalls = 1 <=> ReachedConvert(jobs[i])
              /\ variant # "pdf" =>
                    (jobs[i].setupCalls = 1 <=>
                        (jobs[i].pc \notin {"validate", "setup"}
                           /\ jobs[i].cause # "validate"))
              /\ (jobs[i].convertCalls = 1 /\ jobs[i].outcome = "raise"
                    /\ jobs[i].pc = "done") => jobs[i].posted = 1

\* the backend raised on its one call and the job ended with the failure posted
C20_Witness ==
    /\ variant = "app"
    /\ Len(jobs) = 2
    /\ InFlight(2)
    /\ jobs[2].pc = "done"
    /\ jobs[2].setupCalls = 1
    /\ jobs[2].convertCalls = 1
    /\ jobs[2].outcome = "raise"
    /\ jobs[2].posted = 1
    /\ Len(afterQueue) = 1
    /\ afterQueue[1].fn = "conversion_error"

\* a handler or a worker acted: something of the interface, the jobs or the
\* callback queue changed
HandlerStep ==
    \/ ui' # ui
    \/ jobs' # jobs
    \/ afterQueue' # afterQueue
    \/ accurate_mode' # accurate_mode
    \/ validateCalls' # validateCalls

\* C21: the process ends with exit code 1 when the window could not be
\* built at start-up (whichever way the failure leaves main: sys.exit(1) or
\* an uncaught exception), and with exit code 0 when the event loop returned
\* after the window was closed; no step of a handler or of the worker,
\* failed validation and failed conversion included, ends the process.
C21_ExitCodes ==
    /\ [](proc.pc = "exited" =>
            /\ proc.during = "create_ui" => proc.exit_code = 1
            /\ proc.during = "mainloop" =>
                  (proc.exit_code = 0 /\ proc.how = "return"))
    /\ [][(proc = InMainloop /\ HandlerStep) => proc' = InMainloop]_vars
    /\ [][(proc = InMain /\ proc' = InMainloop) => dialog' = NoDialog]_vars

\* the window of src/app.py could not be built: the error box was shown and
\* sys.exit(1) ended the process
C21_Witness ==
    /\ variant = "app"
    /\ proc.pc = "exited"
    /\ proc.during = "create_ui"
    /\ proc.how = "SystemExit"
    /\ proc.exit_code = 1
    /\ dialog = ShowError("Critical Error", "Failed to create application window")

\* C22: a request is a snapshot taken at selection: the job gets the path
\* the user picked and the value the accurate-mode check box has at that
\* moment, neither changes while the request is in flight whatever the user
\* does to the check box, and the converter is configured from the job's
\* value, not from the check box.
C22_RequestIsSnapshot ==
    /\ [][MaySelectStart =>
            /\ jobs'[Len(jobs')].mode = accurate_mode
            /\ jobs'[Len(jobs')].path = validateCalls'[1]]_vars
    /\ [][\A i \in Requests :
            (InFlight(i) /\ jobs'[i].applied = "none") =>
               /\ jobs'[i].mode = jobs[i].mode
               /\ jobs'[i].path = jobs[i].path]_vars
    /\ [](\A i \in Requests :
            jobs[i].table_mode # "" =>
               jobs[i].table_mode = TableFormerMode(jobs[i].mode))

\* the check box was ticked after a fast request was submitted; the worker
\* built its converter in fast mode all the same
C22_Witness ==
    /\ variant = "app"
    /\ Len(jobs) = 1
    /\ InFlight(1)
    /\ jobs[1].pc = "convert"
    /\ jobs[1].mode = FALSE
    /\ accurate_mode = TRUE
    /\ jobs[1].table_mode = "FAST"

\* C23 as claimed: in src/app.py, in every reachable state, the Select
\* button is disabled exactly when the progress bar is shown, and that
\* exactly when a request is in flight (submitted, its outcome not yet
\* applied).
C23_IndicatorsTrackInFlight ==
    variant = "app" =>
        /\ ui.select_btn = "disabled" <=> ui.progress_shown
        /\ ui.progress_shown <=> \E i \in Requests : InFlight(i)

\* C24 as claimed: without edits of the output widget, whenever the Save
\* button is enabled the output widget holds text that is not only white
\* space.
C24_SaveEnabledHasContent ==
    ui.save_btn = "normal" => Trimmed(ui.output_text) # <<>>

\* the messages validate_pdf_file can raise for file_path
ValidationMsgs(v, file_path) ==
    {Validators[v][file_path][f].msg :
       f \in {g \in FileStates : ~Validators[v][file_path][g].ok}}

\* a rejected selection is a step of the enabled button that submits
\* nothing and leaves the check box alone
MayReject ==
    /\ ui.select_btn = "normal"
    /\ jobs' = jobs
    /\ accurate_mode' = accurate_mode
    /\ validateCalls' # <<>>

C26_WorkerValidationFailure ==
    /\ [](\A i \in Requests :
            (InFlight(i) /\ jobs[i].cause = "validate") =>
               /\ jobs[i].exc \in ValidationMsgs(variant, jobs[i].path)
               /\ jobs[i].setupCalls = 0
               /\ jobs[i].convertCalls = 0
               /\ jobs[i].pdf_bytes = "none"
               /\ jobs[i].posted = Cardinality(Queued(i))
               /\ jobs[i].pc = "done" =>
                     /\ jobs[i].posted = 1
                     /\ \A k \in Queued(i) :
                          /\ afterQueue[k].fn = "conversion_error"
                          /\ afterQueue[k].msg = jobs[i].exc)
    /\ [][\A i \in Requests :
            (jobs[i].cause = "validate" /\ Applied(i)) =>
               /\ jobs'[i].applied = "error"
               /\ ui'.status_var = "Error: " \o jobs[i].exc
               /\ Idle(ui')
               /\ Queued(i) = {1}
               /\ afterQueue' = Tail(afterQueue)]_vars

\* the worker of src/app.py found the accepted file empty and its failure
\* was applied
C26_Witness ==
    /\ variant = "app"
    /\ Len(jobs) = 1
    /\ jobs[1].applied = "error"
    /\ backendCtx = {}
    /\ ui.status_var = "Error: Selected PDF file is empty"
    /\ ui.select_btn = "normal"
    /\ ~ui.progress_shown

\* C27 as claimed: when setup_converter fails with message M the job posts
\* one failure whose message is M, not the message of a later error.
C27_SetupFailureMessage ==
    \A i \in Requests :
        (InFlight(i) /\ jobs[i].converter = "none" /\ jobs[i].pc = "done") =>
            /\ jobs[i].posted = 1
            /\ \A k \in Queued(i) :
                 /\ afterQueue[k].fn = "conversion_error"
                 /\ afterQueue[k].msg \in SetupMsgs

\* what a caller sees of a validator's answer
Verdict(r) == IF r.ok THEN "ok" ELSE r.kind

\* C28 as claimed: the three validate_pdf_file agree: for the same path
\* and the same file each accepts it or each raises the same kind of error.
C28_ValidatorsAgree ==
    Validated =>
        \A v \in Variants :
            Verdict(validate_pdf_file(v, probe.path, probe.file)) = Verdict(probe.result)

====
